---- MODULE Spec2Model ----
(***************************************************************************)
(* Model of the state-impact batch classifier                              *)
(* (src/scripts/classify_state_impacts.ts): the durable classification     *)
(* cache and progress record, the in-memory copies a run works on, and the *)
(* per-batch loop of StateImpactClassifier.processAllChunks; of the GET     *)
(* handler of /api/state-provisions/[state] with its summarizer; and of    *)
(* the warmer precomputeAllStates, which fills the per-entity files from   *)
(* the responses of that handler.                                          *)
(*                                                                         *)
(* Chunk ids are the integers 1..corpus in export order; id 0 stands for   *)
(* an id that is not in the vector index.  A missing cache or progress     *)
(* file loads as the empty cache / the initial progress record, so the     *)
(* files are modelled as always holding a value.                           *)
(***************************************************************************)
EXTENDS Integers, FiniteSets, Sequences, TLC

(* ------------------------------ bounds --------------------------------- *)
\* chunks held by the vector index in Spec
MaxChunks == 10
\* chunks held by the vector index in SpecLong
LongChunks == 64
\* classifier processes started in one behaviour
MaxRuns == 2
\* consecutive rate-limit errors of one batch
MaxAttempts == 4
\* model responses in one behaviour whose ids are not the ids sent
MaxInexact == 1
\* ids 1..InitCached may already be in the cache file at the start
InitCached == 1
\* ids 0..MaxWrongId may be returned by the model in place of a sent id
MaxWrongId == 1

\* chunks among the merged matches of one request in SpecRank
RankCandidates == 12
\* matches in SpecRank whose score is not the common one
MaxOddScores == 2

(* ------------------------- program constants --------------------------- *)
BATCH_SIZE == 8
MAX_RETRIES == 3
FLUSH_EVERY == 5
MIN_TEXT_LENGTH == 100
\* GPT-4o-mini pricing: 0.15 and 0.60 dollars per million tokens, in cents
INPUT_RATE == 15
OUTPUT_RATE == 60
\* const mockCount = limit || 10
MOCK_COUNT == 10

VARIABLES
  corpus,         \* number of chunks in the vector index
  durableCache,   \* CACHE_FILE: chunk id -> classification
  durableProgress,\* PROGRESS_FILE
  cache,          \* this.cache
  progress,       \* this.progress
  pc,             \* position of the classifier process
  limit,          \* --limit of the current run (0: none)
  allChunks,      \* result of exportChunks
  i,              \* batch index of the loop in processAllChunks
  sent,           \* unprocessedBatch of the model call in flight
  run,            \* number of runs started
  prev,           \* how the previous run ended
  loaded,         \* the cache and progress as this run loaded them, and
                  \* the number of this run
  dryRun,         \* the run was started with --dry-run
  attempts,       \* rate-limited calls of batch i so far
  unflushed,      \* successful batches since the last flush
  sinceFlush,     \* ids stored into this.cache since the last flush
  flushed,        \* a flush happened in this run
  failCause,      \* why the run failed
  inexact,        \* responses so far whose ids were not the ids sent
  parked,         \* a second classifier process: its memory and position
  store,          \* data/state-provisions-cache: file stem -> content
  env,            \* process.env of the server: which keys are set
  index,          \* chunk ids the vector index holds
  hpc,            \* position of the GET handler
  stateCode,      \* params.state?.toUpperCase() of the request in progress
  q,              \* semantic queries of the request done so far
  anyOk,          \* a semantic query of the request succeeded
  allMatches,     \* ids of the matches kept so far, in insertion order
  semanticScores, \* chunk id -> best score so far
  calls,          \* external calls made for the request in progress
  completion,     \* what the chat completion of the request did
  response,       \* the response to the last request
  wpc,            \* position of precomputeAllStates
  wi,             \* entities of US_STATES the warmer is done with
  completed,      \* counter of the warmer
  errors,         \* counter of the warmer
  written,        \* file stems the warmer has written in this run
  fetched,        \* codes the warmer has requested, in order
  chunkText,      \* a chunk text handed to shouldProcessChunk on its own
  verdict,        \* what shouldProcessChunk returned for chunkText
  reported,       \* pairs <<chunk id, score>> the queries of a request gave
  lowered,        \* ids for which a query gave less than the score kept
  anyFail,        \* a query of the request has failed
  lateIds         \* ids given by a query that came after a failed one

\* the classifier and its files
classifier ==
  <<corpus, durableCache, durableProgress, cache, progress, pc, limit,
    allChunks, i, sent, run, prev, loaded, dryRun, attempts,
    unflushed, sinceFlush, flushed, failCause, inexact, parked>>

\* the server's surroundings, the GET handler, the warmer
world == <<store, env, index>>
handler ==
  <<hpc, stateCode, q, anyOk, allMatches, semanticScores, calls, completion,
    response>>
warmer == <<wpc, wi, completed, errors, written, fetched>>

\* the pre-filter applied on its own (the --review sample)
prefilter == <<chunkText, verdict>>

\* what the query loop of one request has been through
history == <<reported, lowered, anyFail, lateIds>>

\* what the variables of the classifier do not cover: left alone by a
\* classifier step
others == <<parked, world, handler, warmer, prefilter, history>>

vars == <<classifier, world, handler, warmer, prefilter, history>>

(* ------------------------------ helpers -------------------------------- *)
Range(s) == {s[k] : k \in 1..Len(s)}

Min(a, b) == IF a < b THEN a ELSE b

\* Math.ceil(a / b)
CeilDiv(a, b) == (a + b - 1) \div b

\* the text of chunk c, reduced to what shouldProcessChunk looks at: its
\* length and which pattern families match.  Chunk 3 is the boilerplate
\* "Sec. 2. Definitions."; every other chunk reads like the mock chunk text.
TextOf(c) ==
  IF c = 3
  THEN [length |-> 20, procedural |-> TRUE, international |-> FALSE,
        domestic |-> FALSE, impact |-> FALSE]
  ELSE [length |-> 130, procedural |-> FALSE, international |-> FALSE,
        domestic |-> TRUE, impact |-> TRUE]

shouldProcessChunk(text) ==
  IF text.length < MIN_TEXT_LENGTH THEN FALSE
  ELSE IF text.procedural THEN FALSE
  ELSE IF text.international /\ ~text.domestic THEN FALSE
  ELSE text.impact

initializeProgress ==
  [totalChunks |-> 0, processedChunks |-> 0, lastProcessedId |-> 0,
   apiCallCount |-> 0, totalCost |-> 0]

\* the estimated cost of a call, in cents per million tokens; the prompt and
\* the content are measured in chunks (input chunks sent, output
\* classifications returned) in place of prompt.length / 4 tokens
cost(inputTokens, outputTokens) ==
  inputTokens * INPUT_RATE + outputTokens * OUTPUT_RATE

\* the record classifyBatch(chunks, dryRun) makes up for a chunk
MockClassification ==
  [run |-> loaded.run, reasoning |-> "Dry run mock classification"]

\* the record a model call of this run stores for a chunk: classifications
\* are told apart by the run that produced them
Classification == [run |-> loaded.run]

\* the text of every mock chunk of exportChunks(dryRun)
MockText ==
  [length |-> 133, procedural |-> FALSE, international |-> FALSE,
   domestic |-> TRUE, impact |-> TRUE]

passes(c) == shouldProcessChunk(IF dryRun THEN MockText ELSE TextOf(c))

filteredChunks == SelectSeq(allChunks, passes)

totalBatches == CeilDiv(Len(filteredChunks), BATCH_SIZE)

\* chunks.slice(k * BATCH_SIZE, k * BATCH_SIZE + BATCH_SIZE)
BatchOf(chunks, k) ==
  SubSeq(chunks, k * BATCH_SIZE + 1,
         Min(k * BATCH_SIZE + BATCH_SIZE, Len(chunks)))

batch == BatchOf(filteredChunks, i)

notCached(c) == c \notin DOMAIN cache

\* variant: the batch is sent whole, cached chunks included
unprocessedBatchUnfiltered == batch

\* batch.filter(chunk => !this.cache.has(chunk.id))
unprocessedBatch == SelectSeq(batch, notCached)

\* cache.set(classification.chunkId, classification) for every returned id
StoreAll(c, ids, val) ==
  [id \in DOMAIN c \cup ids |-> IF id \in ids THEN val ELSE c[id]]

\* the sets of chunk ids a parseable model response may carry for a call
\* that sent the chunks u: all of them, all but the first, or all but the
\* first plus an id that was not asked for
Responses(u) ==
  IF u = << >> THEN {}
  ELSE {Range(u), Range(u) \ {u[1]}}
         \cup {(Range(u) \ {u[1]}) \cup {w} : w \in 0..MaxWrongId}

(* ---------------------------- durable files ---------------------------- *)
\* loadCache: the in-memory cache is the content of the cache file
loadCache == durableCache

\* variant: every run starts from a fresh progress record
loadProgressFresh == initializeProgress

\* loadProgress: the in-memory progress is the content of the progress file
loadProgress == durableProgress

\* variant: the cache file is rewritten with the cache as it was loaded
saveCacheStale(c) == loaded.cache

\* variant: the in-memory cache c is merged into the content of the file
saveCacheMerge(c) ==
  [id \in DOMAIN durableCache \cup DOMAIN c |->
     IF id \in DOMAIN c THEN c[id] ELSE durableCache[id]]

\* variant: a --dry-run keeps its mock classifications out of the file
saveCacheRealOnly(c) == IF dryRun THEN durableCache ELSE c

\* saveCache: the cache file receives the whole in-memory cache c
saveCache(c) == c

\* saveProgress: the progress file receives the in-memory record p
saveProgress(p) == p

\* "Save progress every 5 batches": if (i % 5 === 0)
flushDue(k) == k % FLUSH_EVERY = 0

\* the --limit values a run is started with; 0: no --limit
Limits == {0, 2}

Stopped == {"idle", "done", "failed", "killed"}
Running == {"exporting", "loop", "calling"}

(* ------------- the serving boundary and the warmer at rest ------------- *)
\* which kinds of external calls the handler has made for a request
NoCalls == [fs |-> FALSE, embed |-> FALSE, query |-> FALSE, llm |-> FALSE]

\* an error response has none of the fields of a result
NoBody ==
  [parseable |-> TRUE, state |-> << >>, hasProvisions |-> FALSE,
   provisions |-> << >>, totalFound |-> 0, cached |-> FALSE, epoch |-> 0]

NoResponse == [status |-> 0, error |-> "", body |-> NoBody]

\* no chat completion was asked for
NoCompletion == [kind |-> "none", summaries |-> << >>]

\* no request has arrived
HandlerIdle ==
  /\ hpc = "idle"
  /\ stateCode = << >>
  /\ q = 0
  /\ anyOk = FALSE
  /\ allMatches = << >>
  /\ semanticScores = << >>
  /\ calls = NoCalls
  /\ completion = NoCompletion
  /\ response = NoResponse

\* the warmer has not been started
WarmerIdle ==
  /\ wpc = "idle"
  /\ wi = 0
  /\ completed = 0
  /\ errors = 0
  /\ written = {}
  /\ fetched = << >>

\* no query loop is followed
HistoryIdle ==
  /\ reported = {}
  /\ lowered = {}
  /\ anyFail = FALSE
  /\ lateIds = {}

\* no text has been handed to the pre-filter on its own
PrefilterIdle ==
  /\ chunkText = [length |-> 0, procedural |-> FALSE, international |-> FALSE,
                  domestic |-> FALSE, impact |-> FALSE]
  /\ verdict = "none"

\* no server, no warmer, no review
WebIdle ==
  /\ PrefilterIdle
  /\ HistoryIdle
  /\ store = << >>
  /\ env = [OPENAI_API_KEY |-> TRUE, PINECONE_API_KEY |-> TRUE]
  /\ index = {}
  /\ HandlerIdle
  /\ WarmerIdle

(* ------------------------------- Init ---------------------------------- *)
\* the cache file may already hold classifications of some of the first
\* chunks, written by earlier runs
InitFiles ==
  /\ durableCache \in {[id \in s |-> [run |-> 0]] :
                         s \in SUBSET (1..InitCached)}
  /\ durableProgress = initializeProgress

InitProcess ==
  /\ cache = << >>
  /\ progress = initializeProgress
  /\ pc = "idle"
  /\ limit = 0
  /\ allChunks = << >>
  /\ i = 0
  /\ sent = << >>
  /\ prev = "idle"
  /\ loaded = [cache |-> << >>, progress |-> initializeProgress, run |-> 0]
  /\ dryRun = FALSE
  /\ attempts = 0
  /\ unflushed = 0
  /\ sinceFlush = {}
  /\ flushed = FALSE
  /\ failCause = "none"

\* the memory and position of the process the variables cache .. failCause
\* describe
Local ==
  [cache |-> cache, progress |-> progress, pc |-> pc, limit |-> limit,
   allChunks |-> allChunks, i |-> i, sent |-> sent, prev |-> prev,
   loaded |-> loaded, dryRun |-> dryRun, attempts |-> attempts, unflushed |-> unflushed,
   sinceFlush |-> sinceFlush, flushed |-> flushed, failCause |-> failCause]

\* a process that has not been started
NotStarted ==
  [cache |-> << >>, progress |-> initializeProgress, pc |-> "idle",
   limit |-> 0, allChunks |-> << >>, i |-> 0, sent |-> << >>,
   prev |-> "idle",
   loaded |-> [cache |-> << >>, progress |-> initializeProgress, run |-> 0],
   dryRun |-> FALSE,
   attempts |-> 0, unflushed |-> 0, sinceFlush |-> {}, flushed |-> FALSE,
   failCause |-> "none"]

Init ==
  /\ corpus = MaxChunks
  /\ InitFiles
  /\ InitProcess
  /\ run = 0
  /\ inexact = 0
  /\ parked = NotStarted
  /\ WebIdle

(* ------------------------------ actions -------------------------------- *)
\* main: new StateImpactClassifier() loads both files, then
\* processAllChunks(limit) starts with the export
Construct(lim, dry) ==
  /\ pc \in Stopped
  /\ dryRun' = dry
  /\ run < MaxRuns
  /\ run' = run + 1
  /\ prev' = pc
  /\ cache' = loadCache
  /\ loaded' = [cache |-> loadCache, progress |-> loadProgress,
                run |-> run + 1]
  /\ progress' = loadProgress
  /\ limit' = lim
  /\ pc' = "exporting"
  /\ allChunks' = << >>
  /\ i' = 0
  /\ sent' = << >>
  /\ attempts' = 0
  /\ unflushed' = 0
  /\ sinceFlush' = {}
  /\ flushed' = FALSE
  /\ failCause' = "none"
  /\ UNCHANGED <<corpus, durableCache, durableProgress, inexact>>

\* a run without --dry-run
StartRun(lim) == Construct(lim, FALSE)

\* a run with --dry-run
StartDryRun(lim) == Construct(lim, TRUE)

\* exportChunks returns the first `limit` chunks of the index (all of them
\* without a limit), or with --dry-run `limit || 10` mock chunks that carry
\* the ids of the first chunks; processAllChunks records their number
ExportChunks ==
  /\ pc = "exporting"
  /\ allChunks' =
       IF dryRun
       THEN [k \in 1..(IF limit = 0 THEN MOCK_COUNT ELSE limit) |-> k]
       ELSE [k \in 1..(IF limit = 0 THEN corpus ELSE Min(limit, corpus))
               |-> k]
  /\ progress' = [progress EXCEPT !.totalChunks = Len(allChunks')]
  /\ i' = 0
  /\ pc' = "loop"
  /\ UNCHANGED <<corpus, durableCache, durableProgress, cache, limit, sent,
                 run, prev, loaded, dryRun, attempts, unflushed,
                 sinceFlush, flushed, failCause, inexact>>

\* exportChunks throws (the index is unreachable, no chunks retrieved):
\* the error leaves processAllChunks and main exits with status 1
ExportFail ==
  /\ pc = "exporting"
  /\ ~dryRun
  /\ pc' = "failed"
  /\ failCause' = "export"
  /\ UNCHANGED <<corpus, durableCache, durableProgress, cache, progress,
                 limit, allChunks, i, sent, run, prev, loaded, dryRun, attempts,
                 unflushed, sinceFlush, flushed, inexact>>

\* every chunk of batch i is in the cache: continue
SkipBatch ==
  /\ pc = "loop"
  /\ i < totalBatches
  /\ unprocessedBatch = << >>
  /\ i' = i + 1
  /\ UNCHANGED <<corpus, durableCache, durableProgress, cache, progress, pc,
                 limit, allChunks, sent, run, prev, loaded, dryRun, attempts,
                 unflushed, sinceFlush, flushed, failCause, inexact>>

\* variant: the model call carries the whole batch
IssueCallWholeBatch ==
  /\ pc = "loop"
  /\ ~dryRun
  /\ i < totalBatches
  /\ unprocessedBatch # << >>
  /\ sent' = batch
  /\ pc' = "calling"
  /\ UNCHANGED <<corpus, durableCache, durableProgress, cache, progress,
                 limit, allChunks, i, run, prev, loaded, dryRun, attempts,
                 unflushed, sinceFlush, flushed, failCause, inexact>>

\* classifyBatch(unprocessedBatch) sends the model call and awaits it
IssueCall ==
  /\ pc = "loop"
  /\ ~dryRun
  /\ i < totalBatches
  /\ unprocessedBatch # << >>
  /\ sent' = unprocessedBatch
  /\ pc' = "calling"
  /\ UNCHANGED <<corpus, durableCache, durableProgress, cache, progress,
                 limit, allChunks, i, run, prev, loaded, dryRun, attempts,
                 unflushed, sinceFlush, flushed, failCause, inexact>>

\* --dry-run: classifyBatch returns a mock classification for every chunk
\* it was given, without a model call; the loop stores, counts and flushes
\* as for a model response
ClassifyDry ==
  /\ pc = "loop"
  /\ dryRun
  /\ i < totalBatches
  /\ unprocessedBatch # << >>
  /\ cache' = StoreAll(cache, Range(unprocessedBatch), MockClassification)
  /\ progress' = [progress EXCEPT
                    !.processedChunks = @ + Len(unprocessedBatch),
                    !.lastProcessedId = batch[Len(batch)]]
  /\ IF flushDue(i)
     THEN /\ durableCache' = saveCache(cache')
          /\ durableProgress' = saveProgress(progress')
          /\ unflushed' = 0
          /\ sinceFlush' = {}
          /\ flushed' = TRUE
     ELSE /\ unflushed' = unflushed + 1
          /\ sinceFlush' = sinceFlush \cup Range(unprocessedBatch)
          /\ UNCHANGED <<durableCache, durableProgress, flushed>>
  /\ i' = i + 1
  /\ UNCHANGED <<corpus, pc, limit, allChunks, sent, run, prev, loaded,
                 dryRun, attempts, failCause, inexact>>

\* the call returns a parseable array carrying the chunk ids `returned`
ClassifyOk(returned) ==
  /\ pc = "calling"
  /\ returned \in Responses(sent)
  /\ returned # Range(sent) => inexact < MaxInexact
  /\ inexact' = IF returned # Range(sent) THEN inexact + 1 ELSE inexact
  /\ cache' = StoreAll(cache, returned, Classification)
  /\ progress' = [progress EXCEPT
                    !.apiCallCount = @ + 1,
                    !.totalCost = @ + cost(Len(sent), Cardinality(returned)),
                    !.processedChunks = @ + Len(sent),
                    !.lastProcessedId = batch[Len(batch)]]
  /\ IF flushDue(i)
     THEN /\ durableCache' = saveCache(cache')
          /\ durableProgress' = saveProgress(progress')
          /\ unflushed' = 0
          /\ sinceFlush' = {}
          /\ flushed' = TRUE
     ELSE /\ unflushed' = unflushed + 1
          /\ sinceFlush' = sinceFlush \cup returned
          /\ UNCHANGED <<durableCache, durableProgress, flushed>>
  /\ attempts' = 0
  /\ i' = i + 1
  /\ pc' = "loop"
  /\ UNCHANGED <<corpus, limit, allChunks, sent, run, prev, loaded, dryRun,
                 failCause>>

\* variant: after the wait the loop goes on with the next batch (no i--)
RateLimitedNoRetry ==
  /\ pc = "calling"
  /\ attempts < MaxAttempts
  /\ durableCache' = saveCache(cache)
  /\ durableProgress' = saveProgress(progress)
  /\ unflushed' = 0
  /\ sinceFlush' = {}
  /\ flushed' = TRUE
  /\ attempts' = attempts + 1
  /\ i' = i + 1
  /\ pc' = "loop"
  /\ UNCHANGED <<corpus, cache, progress, limit, allChunks, sent, run,
                 prev, loaded, dryRun, failCause, inexact>>

\* the call fails with an error whose message contains "rate limit":
\* save, wait 60 seconds, i-- and the loop's i++ retry the same batch
RateLimited ==
  /\ pc = "calling"
  /\ attempts < MaxAttempts
  /\ durableCache' = saveCache(cache)
  /\ durableProgress' = saveProgress(progress)
  /\ unflushed' = 0
  /\ sinceFlush' = {}
  /\ flushed' = TRUE
  /\ attempts' = attempts + 1
  /\ pc' = "loop"
  /\ UNCHANGED <<corpus, cache, progress, limit, allChunks, i, sent, run,
                 prev, loaded, dryRun, failCause, inexact>>

\* variant: the catch block rethrows without saving
FailBatchNoSave(cause) ==
  /\ pc = "calling"
  /\ failCause' = cause
  /\ pc' = "failed"
  /\ UNCHANGED <<corpus, durableCache, durableProgress, cache, progress,
                 limit, allChunks, i, sent, run, prev, loaded, dryRun, attempts,
                 unflushed, sinceFlush, flushed, inexact>>

\* the catch block of the batch loop for any other error: save, rethrow;
\* main exits with status 1
FailBatch(cause) ==
  /\ pc = "calling"
  /\ durableCache' = saveCache(cache)
  /\ durableProgress' = saveProgress(progress)
  /\ unflushed' = 0
  /\ sinceFlush' = {}
  /\ flushed' = TRUE
  /\ failCause' = cause
  /\ pc' = "failed"
  /\ UNCHANGED <<corpus, cache, progress, limit, allChunks, i, sent, run,
                 prev, loaded, dryRun, attempts, inexact>>

\* the call fails with an error that is not a rate limit
ApiError == FailBatch("api")

\* the response is not parseable JSON: classifyBatch throws
\* "Invalid JSON response from OpenAI"
MalformedResponse == FailBatch("malformed")

\* the loop is over: final save, then generateSummary
FinalSave ==
  /\ pc = "loop"
  /\ i >= totalBatches
  /\ durableCache' = saveCache(cache)
  /\ durableProgress' = saveProgress(progress)
  /\ unflushed' = 0
  /\ sinceFlush' = {}
  /\ flushed' = TRUE
  /\ UNCHANGED <<corpus, cache, progress, limit, allChunks, i, sent, run,
                 prev, loaded, dryRun, attempts, inexact>>

Finish ==
  /\ FinalSave
  /\ pc' = "done"
  /\ UNCHANGED failCause

\* generateSummary throws (the summary file cannot be written)
SummaryFail ==
  /\ FinalSave
  /\ pc' = "failed"
  /\ failCause' = "summary"

\* the process is killed; the files keep what was last written
Interrupt ==
  /\ pc \in Running
  /\ pc' = "killed"
  /\ UNCHANGED <<corpus, durableCache, durableProgress, cache, progress,
                 limit, allChunks, i, sent, run, prev, loaded, dryRun, attempts,
                 unflushed, sinceFlush, flushed, failCause, inexact>>

\* one step of the classifier process
Next ==
  \/ (\E lim \in Limits : StartRun(lim)) /\ UNCHANGED others
  \/ ExportChunks /\ UNCHANGED others
  \/ ExportFail /\ UNCHANGED others
  \/ SkipBatch /\ UNCHANGED others
  \/ IssueCall /\ UNCHANGED others
  \/ (\E returned \in Responses(sent) : ClassifyOk(returned))
       /\ UNCHANGED others
  \/ RateLimited /\ UNCHANGED others
  \/ ApiError /\ UNCHANGED others
  \/ MalformedResponse /\ UNCHANGED others
  \/ Finish /\ UNCHANGED others
  \/ SummaryFail /\ UNCHANGED others
  \/ Interrupt /\ UNCHANGED others

Spec == Init /\ [][Next]_vars

\* a long run over a large index whose cache file already holds one whole
\* batch; it admits one more run, in which the model answers with the ids sent
InitLong ==
  /\ corpus = LongChunks
  /\ InitProcess
  /\ \E b \in 0..(CeilDiv(LongChunks, BATCH_SIZE) - 1) :
       durableCache =
         [id \in Range(BatchOf(SelectSeq([k \in 1..LongChunks |-> k], passes),
                               b))
            |-> [run |-> 0]]
  /\ durableProgress = initializeProgress
  /\ run = MaxRuns - 1
  /\ inexact = MaxInexact
  /\ parked = NotStarted
  /\ WebIdle

SpecLong == InitLong /\ [][Next]_vars

(* ------------------------------ --dry-run ------------------------------ *)
\* runs with and without --dry-run on the same files
NextDry ==
  \/ Next
  \/ (\E lim \in Limits : StartDryRun(lim)) /\ UNCHANGED others
  \/ ClassifyDry /\ UNCHANGED others

SpecDry == Init /\ [][NextDry]_vars

(* ------------------------- two concurrent runs ------------------------- *)
\* Two classifier processes on the same CACHE_FILE and PROGRESS_FILE.  Each
\* has its own this.cache and this.progress; the scheduler may pass control
\* from one to the other at every await.  The variables cache .. failCause
\* describe the process that takes the next step, parked the other one.
Switch ==
  /\ parked' = Local
  /\ cache' = parked.cache
  /\ progress' = parked.progress
  /\ pc' = parked.pc
  /\ limit' = parked.limit
  /\ allChunks' = parked.allChunks
  /\ i' = parked.i
  /\ sent' = parked.sent
  /\ prev' = parked.prev
  /\ loaded' = parked.loaded
  /\ dryRun' = parked.dryRun
  /\ attempts' = parked.attempts
  /\ unflushed' = parked.unflushed
  /\ sinceFlush' = parked.sinceFlush
  /\ flushed' = parked.flushed
  /\ failCause' = parked.failCause
  /\ UNCHANGED <<corpus, durableCache, durableProgress, run, inexact>>
  /\ UNCHANGED <<world, handler, warmer, prefilter, history>>

NextConc ==
  \/ Next
  \/ Switch

\* both files are missing; two runs are started, and the model answers every
\* call with the ids sent
InitConc ==
  /\ corpus = MaxChunks
  /\ durableCache = << >>
  /\ durableProgress = initializeProgress
  /\ InitProcess
  /\ run = MaxRuns - 2
  /\ inexact = MaxInexact
  /\ parked = NotStarted
  /\ WebIdle

SpecConc == InitConc /\ [][NextConc]_vars

(* ----------------------- the pre-filter on its own --------------------- *)
\* lengths of the texts reviewed: the boilerplate of 20 characters, the two
\* lengths around the minimum, and the length of the mock chunk text
TextLengths == {20, MIN_TEXT_LENGTH - 1, MIN_TEXT_LENGTH, 130}

\* the texts a reviewed chunk may carry, reduced to what shouldProcessChunk
\* looks at
Texts ==
  [length : TextLengths, procedural : BOOLEAN, international : BOOLEAN,
   domestic : BOOLEAN, impact : BOOLEAN]

\* reviewChunks: "Will Process: YES / NO (filtered out)" for one chunk
ReviewChunk ==
  /\ verdict = "none"
  /\ verdict' = IF shouldProcessChunk(chunkText) THEN "process" ELSE "skip"
  /\ UNCHANGED chunkText
  /\ UNCHANGED <<classifier, world, handler, warmer, history>>

\* --review: nothing but the pre-filter runs, on one chunk of any text
InitFilter ==
  /\ corpus = 0
  /\ durableCache = << >>
  /\ durableProgress = initializeProgress
  /\ InitProcess
  /\ run = 0
  /\ inexact = 0
  /\ parked = NotStarted
  /\ store = << >>
  /\ env = [OPENAI_API_KEY |-> TRUE, PINECONE_API_KEY |-> TRUE]
  /\ index = {}
  /\ HandlerIdle
  /\ WarmerIdle
  /\ HistoryIdle
  /\ chunkText \in Texts
  /\ verdict = "none"

NextFilter == ReviewChunk

SpecFilter == InitFilter /\ [][NextFilter]_vars

(* ------------------------ no classifier running ------------------------ *)
ClassifierIdle ==
  /\ corpus = 0
  /\ durableCache = << >>
  /\ durableProgress = initializeProgress
  /\ InitProcess
  /\ run = 0
  /\ inexact = 0
  /\ parked = NotStarted
  /\ PrefilterIdle
  /\ HistoryIdle

(* --------------------- the serving boundary (GET) ---------------------- *)
\* GET /api/state-provisions/[state].  A code is a sequence of one-character
\* strings, so that toUpperCase and toLowerCase are computed.  Scores are in
\* thousandths.

\* chunks the vector index may hold
MaxCandidates == 2
\* entities of US_STATES a run of the warmer covers: the first WarmEntities
WarmEntities == 3

TEMPLATES == 10
TOP_N == 10
SEMANTIC_WEIGHT == 7
KEYWORD_WEIGHT == 3
MIN_RELEVANCE == 500

lowerCase ==
  <<"a", "b", "c", "d", "e", "f", "g", "h", "i", "j", "k", "l", "m",
    "n", "o", "p", "q", "r", "s", "t", "u", "v", "w", "x", "y", "z">>
upperCase ==
  <<"A", "B", "C", "D", "E", "F", "G", "H", "I", "J", "K", "L", "M",
    "N", "O", "P", "Q", "R", "S", "T", "U", "V", "W", "X", "Y", "Z">>

\* String.prototype.toUpperCase / toLowerCase
Convert(str, from, to) ==
  [k \in DOMAIN str |->
     IF \E j \in DOMAIN from : from[j] = str[k]
     THEN to[CHOOSE j \in DOMAIN from : from[j] = str[k]]
     ELSE str[k]]
toUpperCase(str) == Convert(str, lowerCase, upperCase)
toLowerCase(str) == Convert(str, upperCase, lowerCase)

\* the registry of entities, in the order of the warmer's array
US_STATES ==
  <<
     <<"A", "L">>, <<"A", "K">>, <<"A", "Z">>, <<"A", "R">>,
     <<"C", "A">>, <<"C", "O">>, <<"C", "T">>, <<"D", "E">>,
     <<"F", "L">>, <<"G", "A">>, <<"H", "I">>, <<"I", "D">>,
     <<"I", "L">>, <<"I", "N">>, <<"I", "A">>, <<"K", "S">>,
     <<"K", "Y">>, <<"L", "A">>, <<"M", "E">>, <<"M", "D">>,
     <<"M", "A">>, <<"M", "I">>, <<"M", "N">>, <<"M", "S">>,
     <<"M", "O">>, <<"M", "T">>, <<"N", "E">>, <<"N", "V">>,
     <<"N", "H">>, <<"N", "J">>, <<"N", "M">>, <<"N", "Y">>,
     <<"N", "C">>, <<"N", "D">>, <<"O", "H">>, <<"O", "K">>,
     <<"O", "R">>, <<"P", "A">>, <<"R", "I">>, <<"S", "C">>,
     <<"S", "D">>, <<"T", "N">>, <<"T", "X">>, <<"U", "T">>,
     <<"V", "T">>, <<"V", "A">>, <<"W", "A">>, <<"W", "V">>,
     <<"W", "I">>, <<"W", "Y">>, <<"D", "C">>, <<"P", "R">>,
     <<"G", "U">>, <<"V", "I">>, <<"A", "S">>, <<"M", "P">>
  >>

\* variant: the registry holds the 50 states only
RegistryStatesOnly == Range(SubSeq(US_STATES, 1, 50))

\* the keys of the handler's US_STATES object
Registry == Range(US_STATES)

\* path parameters a client may send
RequestCodes ==
  {<<"C", "A">>, <<"c", "a">>, <<"T", "x">>, <<"M", "P">>, <<"X", "X">>,
   <<"1", "2">>, <<"C", "A", "L">>, << >>}

\* a field that is not there
undefined == "undefined"
\* a || b of JavaScript, on strings
OrElse(a, b) == IF a \in {undefined, ""} THEN b ELSE a

\* metadata of the chunks of the vector index: what the keyword score reads
\* of the text, and the section label
Metadata(id) ==
  IF id = 1
  THEN [name |-> TRUE, code |-> FALSE, terms |-> 2, dollars |-> FALSE,
        section |-> "Sec. 1", excerpt |-> "excerpt 1"]
  ELSE [name |-> FALSE, code |-> FALSE, terms |-> id, dollars |-> FALSE,
        section |-> undefined, excerpt |-> "..."]

\* scores a vector query may report for a match
ScoreLevels == {600, 900}

\* sequences over the set ids in which every element occurs once
RECURSIVE Orderings(_)
Orderings(ids) ==
  IF ids = {} THEN {<< >>}
  ELSE UNION {{<<id>> \o rest : rest \in Orderings(ids \ {id})} : id \in ids}

\* arrays of matches over the chunks 1..MaxCandidates: some chunks in some
\* order, each with a score
AllResults ==
  UNION {{[k \in DOMAIN ord |-> [id |-> ord[k], score |-> sc[ord[k]]]] :
            ord \in Orderings(ids), sc \in [ids -> ScoreLevels]} :
         ids \in SUBSET (1..MaxCandidates)}

\* searchResponse.matches of one query: matches among the chunks of the index
QueryResults ==
  {matches \in AllResults : \A k \in DOMAIN matches : matches[k].id \in index}

\* variant: the score of a later match replaces the one stored
RECURSIVE MergeScoresLast(_, _)
MergeScoresLast(scores, matches) ==
  IF matches = << >> THEN scores
  ELSE LET m == Head(matches)
           next == [id \in DOMAIN scores \cup {m.id} |->
                      IF id = m.id THEN m.score ELSE scores[id]]
       IN  MergeScoresLast(next, Tail(matches))

\* the loop over the matches of one query: a match is stored if its id is new
\* or its score is better than the one stored
RECURSIVE MergeScores(_, _)
MergeScores(scores, matches) ==
  IF matches = << >> THEN scores
  ELSE LET m == Head(matches)
           next == IF m.id \notin DOMAIN scores \/ scores[m.id] < m.score
                   THEN [id \in DOMAIN scores \cup {m.id} |->
                           IF id = m.id THEN m.score ELSE scores[id]]
                   ELSE scores
       IN  MergeScores(next, Tail(matches))

\* the keys of allMatches in insertion order
RECURSIVE MergeKeys(_, _)
MergeKeys(keys, matches) ==
  IF matches = << >> THEN keys
  ELSE LET m == Head(matches)
       IN  MergeKeys(IF m.id \in Range(keys) THEN keys
                     ELSE Append(keys, m.id),
                     Tail(matches))

keywordScore(id) ==
  LET m == Metadata(id)
      raw == (IF m.name THEN 1000 ELSE 0) + (IF m.code THEN 800 ELSE 0)
             + 100 * m.terms + (IF m.dollars THEN 500 ELSE 0)
  IN  Min(raw, 1000)

relevanceScore(id, scores) ==
  (scores[id] * SEMANTIC_WEIGHT + keywordScore(id) * KEYWORD_WEIGHT) \div 10

\* the provision pushed for a match
Provision(id, scores) ==
  [id |-> id,
   section |-> OrElse(Metadata(id).section, "HR1 Provision"),
   excerpt |-> Metadata(id).excerpt,
   relevanceScore |-> relevanceScore(id, scores),
   friendlyTitle |-> undefined,
   friendlyDescription |-> undefined]

\* scoredProvisions: the matches with relevanceScore > 0.5, in the order of
\* allMatches
scoredProvisions(keys, scores) ==
  LET kept(id) == relevanceScore(id, scores) > MIN_RELEVANCE
      ids == SelectSeq(keys, kept)
  IN  [k \in DOMAIN ids |-> Provision(ids[k], scores)]

\* variant: a sort that is descending but not stable (of equal scores the
\* last one comes first)
RECURSIVE SortDescUnstable(_)
SortDescUnstable(ps) ==
  IF ps = << >> THEN << >>
  ELSE LET best == CHOOSE a \in DOMAIN ps :
                     /\ \A b \in DOMAIN ps :
                          ps[a].relevanceScore >= ps[b].relevanceScore
                     /\ \A b \in (a + 1)..Len(ps) :
                          ps[b].relevanceScore < ps[a].relevanceScore
           rest == [k \in 1..(Len(ps) - 1) |->
                      IF k < best THEN ps[k] ELSE ps[k + 1]]
       IN  <<ps[best]>> \o SortDescUnstable(rest)

\* Array.prototype.sort with (a, b) => b.relevanceScore - a.relevanceScore:
\* descending, and stable
RECURSIVE SortDesc(_)
SortDesc(ps) ==
  IF ps = << >> THEN << >>
  ELSE LET best == CHOOSE a \in DOMAIN ps :
                     /\ \A b \in DOMAIN ps :
                          ps[a].relevanceScore >= ps[b].relevanceScore
                     /\ \A b \in 1..(a - 1) :
                          ps[b].relevanceScore < ps[a].relevanceScore
           rest == [k \in 1..(Len(ps) - 1) |->
                      IF k < best THEN ps[k] ELSE ps[k + 1]]
       IN  <<ps[best]>> \o SortDesc(rest)

\* .sort(...).slice(0, 10)
topProvisions(keys, scores) ==
  LET sorted == SortDesc(scoredProvisions(keys, scores))
  IN  SubSeq(sorted, 1, Min(TOP_N, Len(sorted)))

(* ------------------------ generateFriendlySummaries -------------------- *)
\* one element of the array the model was asked for; a field may be missing
SummaryEntries ==
  {[title |-> "title", description |-> "description"],
   [title |-> "title", description |-> undefined],
   [title |-> undefined, description |-> undefined]}

\* what the chat completion does when asked to summarize n provisions: the
\* call throws; the content is empty; the content is not JSON; it is the JSON
\* null; it is JSON that is neither null nor an array; it is an array of any
\* length up to n + 1
Completions(n) ==
  {[kind |-> k, summaries |-> << >>] :
     k \in {"throws", "empty", "unparseable", "null", "notArray"}}
  \cup {[kind |-> "array", summaries |-> ss] :
          ss \in UNION {[1..len -> SummaryEntries] : len \in 0..(n + 1)}}

\* answer is one of Completions(n)
IsCompletion(answer, n) ==
  \/ /\ answer.kind \in {"throws", "empty", "unparseable", "null", "notArray"}
     /\ answer.summaries = << >>
  \/ /\ answer.kind = "array"
     /\ Len(answer.summaries) <= n + 1
     /\ \A k \in DOMAIN answer.summaries :
          answer.summaries[k] \in SummaryEntries

Returned(ps) == [raised |-> FALSE, value |-> ps]
Raised == [raised |-> TRUE, value |-> << >>]

\* variant: the array of summaries is returned in place of the provisions
applySummariesOnly(provisions, answer) ==
  IF answer.kind = "null" THEN Raised
  ELSE Returned([k \in DOMAIN answer.summaries |->
                   [provisions[Min(k, Len(provisions))] EXCEPT
                      !.friendlyTitle = answer.summaries[k].title,
                      !.friendlyDescription =
                        answer.summaries[k].description]])

\* provisions.map(...) over the parsed content: summaries[index] of null
\* throws a TypeError, of any other value that is not an array it is
\* undefined
applySummaries(provisions, answer) ==
  IF answer.kind = "null" THEN Raised
  ELSE LET summaries == answer.summaries
           at(k) == IF k \in DOMAIN summaries THEN summaries[k]
                    ELSE [title |-> undefined, description |-> undefined]
       IN  Returned(
             [k \in DOMAIN provisions |->
                [provisions[k] EXCEPT
                   !.friendlyTitle =
                     OrElse(OrElse(at(k).title, provisions[k].section),
                            "HR1 Provision"),
                   !.friendlyDescription =
                     OrElse(at(k).description, provisions[k].excerpt)]])

generateFriendlySummaries(provisions, answer) ==
  IF provisions = << >> THEN Returned(provisions)
  ELSE IF answer.kind \in {"throws", "empty", "unparseable"}
       THEN Returned(provisions)
       ELSE LET mapped == applySummaries(provisions, answer)
            IN  IF mapped.raised THEN Returned(provisions) ELSE mapped

(* ------------------------------ the handler ---------------------------- *)
\* the content of a per-entity file or the body of a response
Body(code, provisions, found, isCached, when) ==
  [parseable |-> TRUE, state |-> code, hasProvisions |-> TRUE,
   provisions |-> provisions, totalFound |-> found, cached |-> isCached,
   epoch |-> when]

\* files an earlier warm-up may have left for the entity code: a result, a
\* result in an older format without the provisions field, a file that is not
\* JSON
OldFiles(code) ==
  {Body(code, << >>, 0, FALSE, 0),
   [Body(code, << >>, 0, FALSE, 0) EXCEPT !.hasProvisions = FALSE],
   [NoBody EXCEPT !.parseable = FALSE]}

\* the directory as an earlier warm-up may have left it: files for some of
\* the stems
PossibleStores(stems) ==
  UNION {{f \in [S -> UNION {OldFiles(toUpperCase(s)) : s \in stems}] :
            \A s \in S : f[s] \in OldFiles(toUpperCase(s))} :
         S \in SUBSET stems}

Reply(status, error, body) ==
  /\ response' = [status |-> status, error |-> error, body |-> body]
  /\ hpc' = "responded"

\* the client has the response: the call of GET is over
EndRequest ==
  /\ hpc = "responded"
  /\ hpc' = "idle"
  /\ stateCode' = << >>
  /\ q' = 0
  /\ anyOk' = FALSE
  /\ allMatches' = << >>
  /\ semanticScores' = << >>
  /\ calls' = NoCalls
  /\ completion' = NoCompletion
  /\ response' = NoResponse

\* a request arrives
StartRequest(raw) ==
  /\ hpc = "idle"
  /\ stateCode' = toUpperCase(raw)
  /\ hpc' = "validate"
  /\ q' = 0
  /\ anyOk' = FALSE
  /\ allMatches' = << >>
  /\ semanticScores' = << >>
  /\ calls' = NoCalls
  /\ completion' = NoCompletion
  /\ response' = NoResponse

\* a client other than the warmer sends a request
Get(raw) ==
  /\ StartRequest(raw)
  /\ UNCHANGED <<classifier, prefilter, history, world, warmer>>

\* a client other than the warmer receives the response
Deliver ==
  /\ EndRequest
  /\ UNCHANGED <<classifier, prefilter, history, world, warmer>>

\* "Validate state code"
Validate ==
  /\ hpc = "validate"
  /\ IF stateCode = << >> \/ stateCode \notin Registry
     THEN Reply(400, "Invalid state code provided", NoBody)
     ELSE hpc' = "cache" /\ UNCHANGED response
  /\ UNCHANGED <<stateCode, q, anyOk, allMatches, semanticScores, calls>>
  /\ UNCHANGED completion
  /\ UNCHANGED <<classifier, prefilter, history, world, warmer>>

\* variant: a hit is returned as stored, without the cached mark
ServeHitUnmarked(content) == content

\* the body of a cache hit: {...cachedData, processingTime, cached: true}
ServeHit(content) == [content EXCEPT !.cached = TRUE]

\* "Try to serve from cache first"; a file that cannot be parsed is logged and
\* the request goes on
CacheLookup ==
  /\ hpc = "cache"
  /\ calls' = [calls EXCEPT !.fs = TRUE]
  /\ LET file == toLowerCase(stateCode)
     IN  IF file \in DOMAIN store /\ store[file].parseable
         THEN Reply(200, "", ServeHit(store[file]))
         ELSE hpc' = "config" /\ UNCHANGED response
  /\ UNCHANGED <<stateCode, q, anyOk, allMatches, semanticScores>>
  /\ UNCHANGED completion
  /\ UNCHANGED <<classifier, prefilter, history, world, warmer>>

\* "Check if AI services are available"
ConfigCheck ==
  /\ hpc = "config"
  /\ IF ~env.OPENAI_API_KEY \/ ~env.PINECONE_API_KEY
     THEN Reply(500, "AI services not configured", NoBody)
     ELSE hpc' = "init" /\ UNCHANGED response
  /\ UNCHANGED <<stateCode, q, anyOk, allMatches, semanticScores, calls>>
  /\ UNCHANGED completion
  /\ UNCHANGED <<classifier, prefilter, history, world, warmer>>

\* "Initialize services"
InitClients ==
  /\ hpc = "init"
  /\ hpc' = "query"
  /\ UNCHANGED <<stateCode, q, anyOk, allMatches, semanticScores, calls,
                 response>>
  /\ UNCHANGED completion
  /\ UNCHANGED <<classifier, prefilter, history, world, warmer>>

\* the import or the constructor of a client throws: the outer catch
InitFail ==
  /\ hpc = "init"
  /\ Reply(500, "Failed to fetch state-specific provisions", NoBody)
  /\ UNCHANGED <<stateCode, q, anyOk, allMatches, semanticScores, calls>>
  /\ UNCHANGED completion
  /\ UNCHANGED <<classifier, prefilter, history, world, warmer>>

\* one semantic query: the embedding and the vector query succeed
QueryOk(matches) ==
  /\ hpc = "query"
  /\ q < TEMPLATES
  \* matches \in QueryResults
  /\ matches \in AllResults
  /\ \A k \in DOMAIN matches : matches[k].id \in index
  /\ calls' = [calls EXCEPT !.embed = TRUE, !.query = TRUE]
  /\ allMatches' = MergeKeys(allMatches, matches)
  /\ semanticScores' = MergeScores(semanticScores, matches)
  /\ anyOk' = TRUE
  /\ q' = q + 1
  /\ UNCHANGED <<hpc, stateCode, response>>
  /\ UNCHANGED completion
  /\ UNCHANGED <<classifier, prefilter, world, warmer>>

\* variant: a query that throws ends the request with an error
QueryFailAbort(stage) ==
  /\ hpc = "query"
  /\ q < TEMPLATES
  /\ calls' = [calls EXCEPT !.embed = TRUE,
                            !.query = @ \/ stage = "query"]
  /\ Reply(500, "Failed to fetch state-specific provisions", NoBody)
  /\ UNCHANGED <<q, stateCode, anyOk, allMatches, semanticScores>>
  /\ UNCHANGED completion
  /\ UNCHANGED <<classifier, prefilter, world, warmer>>

\* one semantic query: the embedding or the vector query throws; the error is
\* logged and the loop goes on
QueryFail(stage) ==
  /\ hpc = "query"
  /\ q < TEMPLATES
  /\ calls' = [calls EXCEPT !.embed = TRUE,
                            !.query = @ \/ stage = "query"]
  /\ q' = q + 1
  /\ UNCHANGED <<hpc, stateCode, anyOk, allMatches, semanticScores, response>>
  /\ UNCHANGED completion
  /\ UNCHANGED <<classifier, prefilter, world, warmer>>

\* variant: a request all of whose queries failed is answered with an error
RespondOrFail(found, summarized) ==
  IF ~anyOk
  THEN Reply(500, "Failed to fetch state-specific provisions", NoBody)
  ELSE Reply(200, "", Body(stateCode, summarized.value, found, FALSE, 1))

\* the response of a live discovery
Respond(found, summarized) ==
  IF summarized.raised
  THEN Reply(500, "Failed to fetch state-specific provisions", NoBody)
  ELSE Reply(200, "", Body(stateCode, summarized.value, found, FALSE, 1))

\* variant: the chat completion is asked for even when there is no provision
summarizerCalledAlways(provisions) == TRUE

\* "if (provisions.length === 0) return provisions": no chat completion is
\* asked for when there is no provision
summarizerCalled(provisions) == provisions # << >>

\* the loop is over: score, sort, take the top 10, summarize, respond
Discover(done) ==
  /\ hpc = "query"
  /\ q = TEMPLATES
  /\ LET top == topProvisions(allMatches, semanticScores)
         found == Len(scoredProvisions(allMatches, semanticScores))
     IN  /\ IF summarizerCalled(top)
            THEN IsCompletion(done, Len(top))
            ELSE done = NoCompletion
         /\ completion' = done
         /\ calls' = [calls EXCEPT !.llm = summarizerCalled(top)]
         /\ Respond(found, generateFriendlySummaries(top, done))
  /\ UNCHANGED <<stateCode, q, anyOk, allMatches, semanticScores>>
  /\ UNCHANGED <<classifier, prefilter, world, warmer>>

\* one step of the handler
Handle ==
  \/ Validate
  \/ CacheLookup
  \/ ConfigCheck
  \/ InitClients
  \/ InitFail
  \/ /\ hpc = "query"
     /\ \E matches \in QueryResults : QueryOk(matches)
     /\ UNCHANGED history
  \/ /\ \E stage \in {"embed", "query"} : QueryFail(stage)
     /\ UNCHANGED history
  \/ /\ hpc = "query" /\ q = TEMPLATES
     /\ \E done \in Completions(MaxCandidates) \cup {NoCompletion} :
          Discover(done)
     /\ UNCHANGED history

\* the directory may hold a file for California; any of the two keys may be
\* missing
InitServe ==
  /\ ClassifierIdle
  /\ store \in PossibleStores({<<"c", "a">>})
  /\ env \in [OPENAI_API_KEY : BOOLEAN, PINECONE_API_KEY : BOOLEAN]
  /\ index = 1..MaxCandidates
  /\ HandlerIdle
  /\ WarmerIdle

NextServe ==
  \/ \E raw \in RequestCodes : Get(raw)
  \/ Handle
  \/ Deliver

SpecServe == InitServe /\ [][NextServe]_vars

(* ------------------- scoring and ranking on their own ------------------ *)
\* cosine scores of the index: the common score of a good match, and the
\* scores a match may have instead (opposite direction, weak)
CommonScore == 900
OddScores == {-200, 600}

\* the merged matches at the end of the query loop: the chunks 1..n in the
\* order they were first seen (ascending or descending), all with the common
\* score but for at most MaxOddScores of them
MergedScores(n) ==
  UNION {{[id \in 1..n |-> IF id \in odd THEN sc[id] ELSE CommonScore] :
            sc \in [odd -> OddScores]} :
         odd \in {o \in SUBSET (1..n) : Cardinality(o) <= MaxOddScores}}

MergedKeys(n) == {[k \in 1..n |-> k], [k \in 1..n |-> n + 1 - k]}

\* the chat completion of the summarizer throws, or is not asked for
NoSummary == {[kind |-> "throws", summaries |-> << >>], NoCompletion}

\* a request for CA has come through validation, cache lookup, key check
\* and the ten queries, which have left any of the merged results
InitRank ==
  /\ ClassifierIdle
  /\ WarmerIdle
  /\ store = << >>
  /\ env = [OPENAI_API_KEY |-> TRUE, PINECONE_API_KEY |-> TRUE]
  /\ hpc = "query"
  /\ stateCode = <<"C", "A">>
  /\ q = TEMPLATES
  /\ anyOk = TRUE
  /\ calls = [fs |-> TRUE, embed |-> TRUE, query |-> TRUE, llm |-> FALSE]
  /\ completion = NoCompletion
  /\ response = NoResponse
  /\ \E n \in 0..RankCandidates :
       /\ index = 1..n
       /\ allMatches \in MergedKeys(n)
       /\ semanticScores \in MergedScores(n)

NextRank ==
  \/ /\ hpc = "query"
     /\ \E done \in NoSummary : Discover(done)
     /\ UNCHANGED history
  \/ Deliver

SpecRank == InitRank /\ [][NextRank]_vars

(* ------------------------ the query loop followed --------------------- *)
\* the greatest of a non-empty set of scores
Max(S) == CHOOSE x \in S : \A y \in S : y <= x

\* the scores the queries have given for chunk id
ReportedFor(id) == {r[2] : r \in {x \in reported : x[1] = id}}

\* the query results that list their matches by ascending chunk id: the
\* order within one result has no part in the merge
SortedResults ==
  {matches \in QueryResults :
     \A k \in 1..(Len(matches) - 1) : matches[k].id < matches[k + 1].id}

\* a query succeeds; what it gave is noted
RetrieveOk(matches) ==
  /\ QueryOk(matches)
  /\ reported' =
       reported \cup {<<matches[k].id, matches[k].score>> : k \in DOMAIN matches}
  /\ lowered' =
       lowered \cup
       {matches[k].id :
          k \in {j \in DOMAIN matches :
                   /\ ReportedFor(matches[j].id) # {}
                   /\ matches[j].score < Max(ReportedFor(matches[j].id))}}
  /\ lateIds' =
       IF anyFail
       THEN lateIds \cup {matches[k].id : k \in DOMAIN matches}
       ELSE lateIds
  /\ UNCHANGED anyFail

\* a query fails; that it did is noted
RetrieveFail(stage) ==
  /\ QueryFail(stage)
  /\ anyFail' = TRUE
  /\ UNCHANGED <<reported, lowered, lateIds>>

\* a request for CA has come through validation, cache lookup and key check;
\* the clients exist and the query loop begins
InitRetrieve ==
  /\ ClassifierIdle
  /\ WarmerIdle
  /\ store = << >>
  /\ env = [OPENAI_API_KEY |-> TRUE, PINECONE_API_KEY |-> TRUE]
  /\ index = 1..MaxCandidates
  /\ hpc = "query"
  /\ stateCode = <<"C", "A">>
  /\ q = 0
  /\ anyOk = FALSE
  /\ allMatches = << >>
  /\ semanticScores = << >>
  /\ calls = [fs |-> TRUE, embed |-> FALSE, query |-> FALSE, llm |-> FALSE]
  /\ completion = NoCompletion
  /\ response = NoResponse

NextRetrieve ==
  \/ /\ hpc = "query"
     /\ \E matches \in SortedResults : RetrieveOk(matches)
  \/ \E stage \in {"embed", "query"} : RetrieveFail(stage)
  \/ /\ hpc = "query" /\ q = TEMPLATES
     /\ \E done \in NoSummary : Discover(done)
     /\ UNCHANGED history

SpecRetrieve == InitRetrieve /\ [][NextRetrieve]_vars

(* ------------------------ precomputeAllStates -------------------------- *)
\* the entities a run of the warmer covers
Entities == SubSeq(US_STATES, 1, WarmEntities)

totalStates == Len(Entities)

\* main calls precomputeAllStates: the directory is made, the counters are 0
WarmStart ==
  /\ wpc = "idle"
  /\ wpc' = "loop"
  /\ wi' = 0
  /\ completed' = 0
  /\ errors' = 0
  /\ written' = {}
  /\ fetched' = << >>
  /\ UNCHANGED <<classifier, prefilter, history, world, handler>>

\* fetch(`${baseUrl}/api/state-provisions/${state.code}`) reaches the server
WarmFetch ==
  /\ wpc = "loop"
  /\ wi < totalStates
  /\ StartRequest(Entities[wi + 1])
  /\ fetched' = Append(fetched, Entities[wi + 1])
  /\ wpc' = "fetching"
  /\ UNCHANGED <<wi, completed, errors, written>>
  /\ UNCHANGED <<classifier, prefilter, history, world>>

\* fetch throws: the server is not reachable
WarmNetworkError ==
  /\ wpc = "loop"
  /\ wi < totalStates
  /\ fetched' = Append(fetched, Entities[wi + 1])
  /\ errors' = errors + 1
  /\ wi' = wi + 1
  /\ UNCHANGED <<wpc, completed, written>>
  /\ UNCHANGED <<classifier, prefilter, history, world, handler>>

\* completed++, then the log line reads data.provisions.length: a body
\* without provisions throws there, into the catch block that counts an error
CountCompleted(data) ==
  /\ completed' = completed + 1
  /\ errors' = IF data.hasProvisions THEN errors ELSE errors + 1

\* the response has arrived: a status that is not ok throws; else the body is
\* written to the file of the entity
WarmReceive ==
  /\ wpc = "fetching"
  /\ EndRequest
  /\ IF response.status # 200
     THEN /\ errors' = errors + 1
          /\ UNCHANGED <<completed, written, store>>
     ELSE LET data == response.body
              file == toLowerCase(Entities[wi + 1])
          IN  /\ store' = [f \in DOMAIN store \cup {file} |->
                             IF f = file THEN data ELSE store[f]]
              /\ written' = written \cup {file}
              /\ CountCompleted(data)
  /\ wi' = wi + 1
  /\ wpc' = "loop"
  /\ UNCHANGED <<fetched, env, index>>
  /\ UNCHANGED <<classifier, prefilter, history>>

\* the response has arrived with status ok, and response.json() or
\* writeFileSync throws
WarmReceiveFail ==
  /\ wpc = "fetching"
  /\ EndRequest
  /\ response.status = 200
  /\ errors' = errors + 1
  /\ wi' = wi + 1
  /\ wpc' = "loop"
  /\ UNCHANGED <<completed, written, fetched>>
  /\ UNCHANGED <<classifier, prefilter, history, world>>

\* the loop is over: precompute-summary.json is written from the counters
WarmSummary ==
  /\ wpc = "loop"
  /\ wi = totalStates
  /\ wpc' = "done"
  /\ UNCHANGED <<wi, completed, errors, written, fetched>>
  /\ UNCHANGED <<classifier, prefilter, history, world, handler>>

\* the directory may hold files for the entities; any of the two keys may be
\* missing; the vector index is empty
InitWarm ==
  /\ ClassifierIdle
  /\ store \in PossibleStores({toLowerCase(Entities[k]) : k \in DOMAIN Entities})
  /\ env \in [OPENAI_API_KEY : BOOLEAN, PINECONE_API_KEY : BOOLEAN]
  /\ index = {}
  /\ HandlerIdle
  /\ WarmerIdle

NextWarm ==
  \/ WarmStart
  \/ WarmFetch
  \/ WarmNetworkError
  \/ WarmReceive
  \/ WarmReceiveFail
  \/ WarmSummary
  \/ Handle

SpecWarm == InitWarm /\ [][NextWarm]_vars

(* ------------------------------ claims --------------------------------- *)
\* the current run has exported its chunks
Exported == pc \notin {"idle", "exporting"} /\ allChunks # << >>

\* every pre-filtered chunk of the current run was in the cache it loaded
FullyCached == Exported /\ Range(filteredChunks) \subseteq DOMAIN loaded.cache

\* C1: a run over a candidate set whose every pre-filtered chunk id was in
\* the loaded cache never has a model call in flight, counts no call, and
\* the cache file written at its end is the cache it loaded.
C1_Idempotent ==
  FullyCached =>
    /\ pc # "calling"
    /\ sent = << >>
    /\ progress.apiCallCount = loaded.progress.apiCallCount
    /\ pc = "done" => durableCache = loaded.cache

C1_Witness == FullyCached /\ pc = "done" /\ DOMAIN loaded.cache # {}

\* Scenario C: the loaded cache holds chunk 1, the candidates are chunks 1, 2
ScenarioC == Exported /\ DOMAIN loaded.cache = {1} /\ allChunks = <<1, 2>>

\* every chunk of the call in flight is absent from the cache
SentUncached == pc = "calling" => Range(sent) \cap DOMAIN cache = {}

\* C2 as stated: every chunk sent is absent from the cache, and in
\* Scenario C exactly one model call is issued (the call in flight is never
\* a repeated call) and it covers only chunk 2.
C2_ExactlyOneCall ==
  /\ SentUncached
  /\ ScenarioC =>
       /\ pc = "calling" => sent = <<2>> /\ attempts = 0
       /\ pc = "done" =>
            progress.apiCallCount = loaded.progress.apiCallCount + 1

\* C2 amended: every chunk sent is absent from the cache, and in Scenario C
\* every model call issued covers only chunk 2 and exactly one call has
\* returned a response when the run is done; a rate-limited call is issued
\* again for the same chunk.
C2_OnlyUncachedSent ==
  /\ SentUncached
  /\ ScenarioC =>
       /\ pc = "calling" => sent = <<2>>
       /\ pc = "done" =>
            progress.apiCallCount = loaded.progress.apiCallCount + 1

C2_Witness == ScenarioC /\ pc = "done" /\ 2 \in DOMAIN cache

\* the current run was started after the previous one was killed
Resumed == run >= 2 /\ prev = "killed"

C4_BoundedRetry == attempts <= MAX_RETRIES

\* the files hold what is in memory
Flushed == durableCache = cache /\ durableProgress = progress

\* C5 as stated: every failed run has flushed, and the files hold what is
\* in memory.
C5_FlushBeforeFailed == pc = "failed" => flushed /\ Flushed

\* C5 amended: when a run fails the files hold what is in memory; a failure
\* of a batch or of the summary is preceded by a flush, a failure of the
\* export happens before memory has changed and flushes nothing.
C5_FailedIsDurable ==
  pc = "failed" =>
    /\ Flushed
    /\ failCause # "export" => flushed
    /\ failCause = "export" => ~flushed /\ cache = loaded.cache

C5_Witness ==
  /\ pc = "failed"
  /\ failCause = "api"
  /\ DOMAIN cache # DOMAIN loaded.cache

\* C6: an unparseable model response never makes the run fail.
C6_MalformedSkipped == ~(pc = "failed" /\ failCause = "malformed")

\* C7: at most FLUSH_EVERY successful batches are in memory only, and a run
\* that is done has flushed everything.
C7_FlushBound ==
  /\ unflushed <= FLUSH_EVERY
  /\ pc = "done" => Flushed

\* C8 as stated: whenever an interrupt can strike, the result of every
\* completed batch is in the cache file.
C8_LosesOnlyInFlight ==
  pc \in Running => DOMAIN cache \subseteq DOMAIN durableCache

\* C8 amended: an interrupt loses at most the batches completed since the
\* last flush: every classification stored at or before the most recent
\* flush is in the cache file, unchanged.
C8_LosesOnlyUnflushed ==
  \A id \in DOMAIN cache \ sinceFlush :
    id \in DOMAIN durableCache /\ durableCache[id] = cache[id]

C8_Witness ==
  /\ pc = "killed"
  /\ sinceFlush # {}
  /\ DOMAIN cache \ sinceFlush # {}

\* C9: processedChunks never decreases within a run and never exceeds
\* totalChunks.
C9_ProgressInvariant ==
  /\ [](Exported => progress.processedChunks <= progress.totalChunks)
  /\ [][run' = run =>
          progress'.processedChunks >= progress.processedChunks]_vars

\* C10: a classification in the cache, in memory or in the file, is never
\* replaced by another one.
C10_NeverOverwritten ==
  [][/\ \A id \in DOMAIN durableCache :
          id \in DOMAIN durableCache' /\ durableCache'[id] = durableCache[id]
     /\ run' = run =>
          \A id \in DOMAIN cache :
            id \in DOMAIN cache' /\ cache'[id] = cache[id]]_vars

\* C11: two classifier runs on the same cache file are not safe. Every flush
\* replaces the whole file by the memory of the process that flushes, so
\* what the other process flushed since this one loaded is no longer there
\* (a lost update).
C11_FlushIsWholesale ==
  [][durableCache' # durableCache => durableCache' = cache']_vars

\* the other run has finished, so all it classified was flushed; this run
\* flushed last, and a classification of the other run is gone from the file
C11_Witness ==
  /\ parked.pc = "done"
  /\ flushed
  /\ durableCache = cache
  /\ \E id \in DOMAIN parked.cache : id \notin DOMAIN durableCache

\* the request in progress has been answered
Responded == hpc = "responded"

\* the code of the request is an entry of the registry
ValidCode == stateCode \in Range(US_STATES)

\* the per-entity file of the request exists and can be parsed
CacheHit ==
  /\ toLowerCase(stateCode) \in DOMAIN store
  /\ store[toLowerCase(stateCode)].parseable

\* the two keys are set
Configured == env.OPENAI_API_KEY /\ env.PINECONE_API_KEY

\* C12: for a valid code the per-entity file is looked up first. On a hit the
\* response is the content of the file marked cached = true and no
\* embedding, vector query or chat completion has been made; on a miss the
\* result of the response comes from a live discovery and is marked
\* cached = false; the handler never writes to the per-entity store.
C12_CacheFirst ==
  /\ [](Responded /\ ValidCode =>
         /\ CacheHit =>
              /\ response.status = 200
              /\ response.body = [store[toLowerCase(stateCode)]
                                    EXCEPT !.cached = TRUE]
              /\ ~calls.embed /\ ~calls.query /\ ~calls.llm
         /\ ~CacheHit /\ response.status = 200 =>
              /\ response.body.cached = FALSE
              /\ response.body.epoch = 1
              /\ response.body.state = stateCode
              /\ q = TEMPLATES /\ calls.embed)
  /\ [][store' = store]_vars

\* a hit has been served
C12_Witness ==
  /\ Responded /\ ValidCode /\ CacheHit
  /\ response.body.cached = TRUE
  /\ stateCode = <<"C", "A">>

\* C13: a code that is not in the registry after upper-casing, the empty
\* code included, is answered with status 400 before any cache file is
\* looked up and before any embedding or vector query; a code of the registry
\* is never answered with status 400.
C13_Validation ==
  Responded =>
    /\ ~ValidCode => response.status = 400 /\ calls = NoCalls
    /\ ValidCode => response.status # 400

\* an unknown code has been rejected
C13_Witness ==
  /\ Responded
  /\ stateCode = <<"C", "A", "L">>
  /\ response.status = 400

\* C14: a valid code, no cached result and a missing key: the status is 503
\* and the error says that AI services are not configured; no retrieval was
\* attempted.
C14_NotConfigured503 ==
  Responded /\ ValidCode /\ ~CacheHit /\ ~Configured =>
    /\ response.status = 503
    /\ response.error = "AI services are not configured"
    /\ ~calls.embed /\ ~calls.query /\ ~calls.llm

\* C15: the warmer requests every entity of the registry once, in registry
\* order, whatever fails, and the counters of its summary add up:
\* completed + errors = totalStates.
C15_CountsAddUp ==
  wpc = "done" =>
    /\ fetched = Entities
    /\ completed + errors = totalStates

\* C16: a file the warmer writes holds the result of a new discovery, not
\* content that was stored before, also when the file of the entity existed.
C16_Superseded ==
  \A file \in written :
    /\ store[file].epoch = 1
    /\ store[file].cached = FALSE

\* the live discovery of the request has made all its semantic queries and
\* every one of them failed
AllQueriesFailed == Responded /\ q = TEMPLATES /\ ~anyOk

\* C17 as stated: if every semantic query fails, the caller gets an error
\* and not a successful empty result.
C17_AllFailedIsError ==
  AllQueriesFailed => response.status >= 400

\* C17: if every semantic query fails, the failure is logged per query and
\* is not surfaced: the caller gets status 200 with no error message and a
\* result marked cached = false.
C17_AllFailedNotSurfaced ==
  AllQueriesFailed =>
    /\ response.status = 200
    /\ response.error = ""
    /\ response.body.cached = FALSE

\* all ten queries failed at the embedding, and the request was answered
C17_Witness ==
  /\ AllQueriesFailed
  /\ calls.embed /\ ~calls.query
  /\ stateCode = <<"T", "X">>

\* C18: if every semantic query fails, there are no candidates and the
\* discovery completes normally: totalFound = 0, an empty provisions list,
\* no error raised and no chat completion asked for.
C18_AllFailedIsEmpty ==
  AllQueriesFailed =>
    /\ allMatches = << >>
    /\ response.status = 200
    /\ response.body.totalFound = 0
    /\ response.body.provisions = << >>
    /\ ~calls.llm
    /\ completion = NoCompletion

\* all ten queries failed, some of them at the vector query, and the request
\* was answered
C18_Witness ==
  /\ AllQueriesFailed
  /\ calls.query
  /\ response.body.hasProvisions

\* the ids of a list of provisions, in order
Ids(ps) == [k \in DOMAIN ps |-> ps[k].id]

\* the live discovery of the request has asked for a chat completion
Summarized == Responded /\ q = TEMPLATES /\ completion # NoCompletion

\* C19: generateFriendlySummaries never raises and, whatever the chat
\* completion does, returns the provisions it was given: as many, with the
\* same ids, in the same order.
C19_SameProvisions ==
  Responded /\ q = TEMPLATES =>
    /\ response.status = 200
    /\ Ids(response.body.provisions)
         = Ids(topProvisions(allMatches, semanticScores))

\* two provisions were to be summarized and the array of the completion has
\* one element
C19_Witness ==
  /\ Summarized
  /\ completion.kind = "array"
  /\ Len(completion.summaries) = 1
  /\ Len(response.body.provisions) = 2

\* the completion failed, was empty, was malformed or was too short for the
\* provisions
SummaryFellBack ==
  /\ Summarized
  /\ \/ completion.kind \in {"throws", "empty", "unparseable", "null",
                              "notArray"}
     \/ /\ completion.kind = "array"
        /\ Len(completion.summaries) < Len(response.body.provisions)

\* C20: if the chat completion fails or is empty, malformed or too short,
\* every returned provision still carries a title and a description that are
\* not empty.
C20_FallbackFields ==
  SummaryFellBack =>
    \A k \in DOMAIN response.body.provisions :
      /\ response.body.provisions[k].friendlyTitle \notin {undefined, ""}
      /\ response.body.provisions[k].friendlyDescription
           \notin {undefined, ""}

\* C23: the pre-filter follows the decision table of the specification: a
\* text is rejected below the minimum length, rejected when it matches a
\* procedural pattern unless it also contains a domestic-impact term,
\* rejected when it matches an international pattern without a
\* domestic-impact term, and otherwise accepted exactly when an
\* impact-indicator pattern matches.
C23_DecisionTable ==
  verdict # "none" =>
    ((verdict = "process") <=>
       /\ chunkText.length >= MIN_TEXT_LENGTH
       /\ ~(chunkText.procedural /\ ~chunkText.domestic)
       /\ ~(chunkText.international /\ ~chunkText.domestic)
       /\ chunkText.impact)

\* C24: Progress.apiCallCount increases by exactly one for every
\* language-model call the classifier issues, whether or not the response
\* could be used; totalCost never decreases during a run; and a run starts
\* from the totals of the progress file.
C24_CostAccounting ==
  [][/\ (pc = "calling" /\ pc' \in {"loop", "failed"}) =>
          progress'.apiCallCount = progress.apiCallCount + 1
     /\ (pc \in Running /\ pc' # "exporting") =>
          progress'.totalCost >= progress.totalCost
     /\ (pc \in Stopped /\ pc' = "exporting") =>
          /\ progress'.apiCallCount = durableProgress.apiCallCount
          /\ progress'.totalCost = durableProgress.totalCost]_vars

\* C27: a rate-limit failure of batch i flushes the cache and the progress
\* record and keeps the batch index; from then on, until batch i succeeds
\* or the run ends, the index does not move, and the next model call is
\* issued for the same batch i with the same uncached chunks.
C27_RetrySameBatch ==
  [][/\ (pc = "calling" /\ pc' = "loop" /\ attempts' = attempts + 1) =>
          /\ durableCache' = cache
          /\ durableProgress' = progress
          /\ cache' = cache
          /\ i' = i
     /\ (pc = "loop" /\ attempts > 0) =>
          /\ i' = i
          /\ pc' \in {"calling", "killed"}
          /\ pc' = "calling" => sent' = sent]_vars

\* the second batch is being called again after a rate-limit failure
C27_Witness ==
  /\ pc = "calling"
  /\ attempts > 0
  /\ i = 1
  /\ Len(sent) > 0
  /\ durableCache = cache

\* C28: after a model call of a batch has succeeded, every chunk of the
\* batch that was counted into processedChunks (every chunk sent) has a
\* cache entry under its own chunk id, whatever ids the response carries.
C28_CountedIsCached ==
  [][(pc = "calling"
        /\ progress'.processedChunks = progress.processedChunks + Len(sent)
        /\ progress'.apiCallCount = progress.apiCallCount + 1) =>
       \A c \in Range(sent) : c \in DOMAIN cache']_vars

\* the cache holds a mock classification of a --dry-run for chunk c
IsMock(c) == c \in DOMAIN cache /\ "reasoning" \in DOMAIN cache[c]

\* C29: a --dry-run issues no model call and counts none, and its export
\* does not read the index; when it is done its mock classifications and
\* its progress are in the cache file and the progress file that real runs
\* load; a later real run sends no chunk that has a mock classification.
C29_DryRunPollutesCache ==
  /\ [](dryRun => pc # "calling")
  /\ [](dryRun /\ pc \in {"loop", "done"} =>
         Len(allChunks) = IF limit = 0 THEN MOCK_COUNT ELSE limit)
  /\ [][dryRun /\ run' = run =>
          progress'.apiCallCount = progress.apiCallCount]_vars
  /\ [](dryRun /\ pc = "done" =>
         /\ durableCache = cache
         /\ durableProgress = progress
         /\ \A c \in Range(allChunks) : c \in DOMAIN durableCache)
  /\ [](~dryRun /\ pc = "calling" => \A c \in Range(sent) : ~IsMock(c))

\* a real run is done without a single model call: all its candidates had
\* been given mock classifications by a --dry-run
C29_Witness ==
  /\ ~dryRun
  /\ pc = "done"
  /\ filteredChunks # << >>
  /\ \A c \in Range(filteredChunks) : IsMock(c)
  /\ progress.apiCallCount = 0
  /\ durableCache = cache

\* C30: in a run of the warmer the number of per-entity files written
\* equals the completed counter, and the step that counts an entity in
\* errors writes or overwrites no file.
C30_FilesOnlyForCompleted ==
  /\ [](Cardinality(written) = completed)
  /\ [][errors' = errors + 1 => written' = written /\ store' = store]_vars

\* the request in progress has been answered by a live discovery
Scored == hpc = "responded" /\ response.status = 200 /\ ~response.body.cached

\* C21: for every chunk scored by the discovery, the keyword score lies in
\* [0, 1], the relevance score lies in [0, 1], and the relevance score is
\* 0.7 * semanticScore + 0.3 * keywordScore (scores in thousandths).
C21_ScoreBounds ==
  Scored =>
    \A id \in DOMAIN semanticScores :
      /\ 0 <= keywordScore(id) /\ keywordScore(id) <= 1000
      /\ 0 <= relevanceScore(id, semanticScores)
      /\ relevanceScore(id, semanticScores) <= 1000
      /\ 10 * relevanceScore(id, semanticScores) =
           SEMANTIC_WEIGHT * semanticScores[id]
           + KEYWORD_WEIGHT * keywordScore(id)

\* the candidates that survive the threshold
Survivors ==
  {id \in Range(allMatches) :
     relevanceScore(id, semanticScores) > MIN_RELEVANCE}

\* the position at which chunk id was first seen by the retriever
FirstSeen(id) == CHOOSE k \in DOMAIN allMatches : allMatches[k] = id

\* C22: the provisions returned are candidates with relevanceScore > 0.5,
\* each once and with its score, in descending order of relevanceScore with
\* equal scores in first-seen order; they are the first 10 of the survivors
\* in that order; totalFound counts the survivors before truncation, so
\* provisions.length = min(10, totalFound).
C22_Ranking ==
  Scored =>
    LET ps == response.body.provisions
        precedes(a, b) ==
          \/ relevanceScore(a, semanticScores)
               > relevanceScore(b, semanticScores)
          \/ /\ relevanceScore(a, semanticScores)
                 = relevanceScore(b, semanticScores)
             /\ FirstSeen(a) < FirstSeen(b)
    IN  /\ response.body.totalFound = Cardinality(Survivors)
        /\ Len(ps) = Min(TOP_N, response.body.totalFound)
        /\ \A k \in DOMAIN ps :
             /\ ps[k].id \in Survivors
             /\ ps[k].relevanceScore
                  = relevanceScore(ps[k].id, semanticScores)
        /\ \A k, l \in DOMAIN ps : k < l => precedes(ps[k].id, ps[l].id)
        /\ \A id \in Survivors \ {ps[k].id : k \in DOMAIN ps} :
             \A k \in DOMAIN ps : precedes(ps[k].id, id)

\* more than 10 candidates survive, one does not; two of the 10 returned
\* have the same score, and a survivor with the score of the last one
\* returned is cut off
C22_Witness ==
  /\ Scored
  /\ response.body.totalFound > TOP_N
  /\ Cardinality(Survivors) < Len(allMatches)
  /\ Len(response.body.provisions) = TOP_N
  /\ LET ps == response.body.provisions
     IN  /\ \E k \in 1..(TOP_N - 1) :
              ps[k].relevanceScore = ps[k + 1].relevanceScore
         /\ \E id \in Survivors \ {ps[k].id : k \in DOMAIN ps} :
              relevanceScore(id, semanticScores) = ps[TOP_N].relevanceScore

\* C25: after the queries of a request, the score kept for each chunk id is
\* the greatest score the successful queries gave for that id, and each id
\* the queries gave is in the merged map exactly once.
C25_MergeKeepsMax ==
  LET ids == {r[1] : r \in reported}
  IN  /\ DOMAIN semanticScores = ids
      /\ \A id \in ids : semanticScores[id] = Max(ReportedFor(id))
      /\ Range(allMatches) = ids
      /\ Len(allMatches) = Cardinality(ids)

\* the request is answered; for some chunk a query gave a lower score after
\* a higher one, and the higher one is kept
C25_Witness ==
  /\ Scored
  /\ \E id \in lowered :
       /\ Cardinality(ReportedFor(id)) > 1
       /\ semanticScores[id] = Max(ReportedFor(id))

\* C26: a failing query does not end the retrieval: from every template
\* the loop goes on to the next one, whether the query succeeded or failed,
\* keeping what is merged; the request is answered only after the last
\* template, and every id a successful query gave, before or after a
\* failure, is in the merged result.
C26_FailureIsSkipped ==
  /\ [][(hpc = "query" /\ q < TEMPLATES) =>
          /\ hpc' = "query"
          /\ q' = q + 1
          /\ \A id \in DOMAIN semanticScores :
               /\ id \in DOMAIN semanticScores'
               /\ semanticScores'[id] >= semanticScores[id]]_vars
  /\ [](hpc = "responded" => q = TEMPLATES /\ response.status = 200)
  /\ [](\A r \in reported : r[1] \in Range(allMatches))
  /\ [](lateIds \subseteq Range(allMatches))

\* the request is answered after a query failed; the merged result holds a
\* chunk given before the failure and another given after it
C26_Witness ==
  /\ Scored
  /\ anyFail
  /\ lateIds # {}
  /\ Range(allMatches) \ lateIds # {}
  /\ lateIds \subseteq Range(allMatches)

TypeOK ==
  /\ pc \in Stopped \cup Running
  /\ i \in Nat
  /\ run \in 0..MaxRuns

====
